---- MODULE Spec2Model ----
(***************************************************************************)
(* A model of the CFML symbolic path resolution (fileUtil) and of the      *)
(* document link provider (documentLinkProvider.ts).                       *)
(*                                                                         *)
(* Text is modelled character by character: a string is a sequence of      *)
(* one-character strings, and an offset is the 0-based index of JavaScript *)
(* (the character at offset o of s is s[o + 1]).                           *)
(***************************************************************************)
EXTENDS Integers, Sequences, FiniteSets, TLC

VARIABLES
    fs,          \* the file system: path -> "file" | "dir" (a path not in the domain is absent)
    fsChanges,   \* how many times the file system was changed behind the program's back
    lastIndex,   \* linkPatterns[r].pattern.lastIndex of the one provider instance
    call,        \* provideDocumentLinks calls: per call its document, results, match, callbacks
    mappings,    \* the "cfml.mappings" setting: a sequence of CFMLMapping
    dp,          \* the resolveDottedPaths run: inputs, position, result, probe log
    listing      \* a directory listing and what the two filters made of it

vars == <<fs, fsChanges, lastIndex, call, mappings, dp, listing>>

-----------------------------------------------------------------------------
(* Strings *)

Min(S) == CHOOSE m \in S : \A n \in S : m <= n

\* s.slice(from), 0-based
Slice(s, from) == IF from >= Len(s) THEN <<>> ELSE SubSeq(s, from + 1, Len(s))

\* s.substring(from, to), 0-based, to exclusive
Substring(s, from, to) == IF to <= from THEN <<>> ELSE SubSeq(s, from + 1, to)

\* whether p occurs in s at offset o
OccursAt(s, p, o) ==
    /\ o >= 0
    /\ o + Len(p) <= Len(s)
    /\ \A k \in 1..Len(p) : s[o + k] = p[k]

StartsWith(s, p) == OccursAt(s, p, 0)

\* s.indexOf(p): the first offset at which p occurs, -1 if none
IndexOf(s, p) ==
    LET hits == {o \in 0..Len(s) : OccursAt(s, p, o)}
    IN  IF hits = {} THEN -1 ELSE Min(hits)

\* the first offset >= from holding a character of the set cs, Len(s) if none
FirstOf(s, cs, from) ==
    LET hits == {o \in from..(Len(s) - 1) : s[o + 1] \in cs}
    IN  IF hits = {} THEN Len(s) ELSE Min(hits)

\* s.replace(/x/g, y) for single characters x and y
ReplaceChar(s, x, y) == [k \in 1..Len(s) |-> IF s[k] = x THEN y ELSE s[k]]

-----------------------------------------------------------------------------
(* The regular expression engine's character classes *)

LowerLetters ==
    {"a", "b", "c", "d", "e", "f", "g", "h", "i", "j", "k", "l", "m",
     "n", "o", "p", "q", "r", "s", "t", "u", "v", "w", "x", "y", "z"}

UpperToLower ==
    [A |-> "a", B |-> "b", C |-> "c", D |-> "d", E |-> "e", F |-> "f", G |-> "g",
     H |-> "h", I |-> "i", J |-> "j", K |-> "k", L |-> "l", M |-> "m", N |-> "n",
     O |-> "o", P |-> "p", Q |-> "q", R |-> "r", S |-> "s", T |-> "t", U |-> "u",
     V |-> "v", W |-> "w", X |-> "x", Y |-> "y", Z |-> "z"]

Digits == {"0", "1", "2", "3", "4", "5", "6", "7", "8", "9"}

\* the i flag: characters compare after case folding
Fold(ch) == IF ch \in DOMAIN UpperToLower THEN UpperToLower[ch] ELSE ch

\* \w
IsWordChar(ch) == Fold(ch) \in LowerLetters \/ ch \in Digits \/ ch = "_"

\* \s
IsSpace(ch) == ch \in {" ", "\t", "\n", "\r"}

\* ['"]
Quotes == {"'", "\""}

\* \b at offset o of s
WordBoundary(s, o) ==
    LET before == o > 0 /\ IsWordChar(s[o])
        after  == o < Len(s) /\ IsWordChar(s[o + 1])
    IN  before # after

\* whether the literal word w matches s at offset o under the i flag
LiteralAt(s, w, o) ==
    /\ o + Len(w) <= Len(s)
    /\ \A k \in 1..Len(w) : Fold(s[o + k]) = w[k]

\* \s* (greedy) from offset o: the offset of the first non-space character
SkipSpace(s, o) ==
    LET stops == {j \in o..(Len(s) - 1) : ~IsSpace(s[j + 1])}
    IN  IF stops = {} THEN Len(s) ELSE Min(stops)

\* exec returned null
NoMatch == [found |-> FALSE, index |-> 0, last |-> 0, groups |-> <<>>]

\* (['"])([^'"]+?)\q from offset o: the opening quote, a non-empty run of
\* characters that are no quote, and the same quote again
QuotedAt(s, o) ==
    IF o >= Len(s) \/ s[o + 1] \notin Quotes THEN [found |-> FALSE, linkAt |-> 0, last |-> 0]
    ELSE LET close == FirstOf(s, Quotes, o + 1)
         IN  IF close < Len(s) /\ close > o + 1 /\ s[close + 1] = s[o + 1]
             THEN [found |-> TRUE, linkAt |-> o + 1, last |-> close + 1]
             ELSE [found |-> FALSE, linkAt |-> 0, last |-> 0]


-----------------------------------------------------------------------------
(* linkPatterns and RegExp.prototype.exec *)

\* (href|src|template|action|url), in the order of the alternation
AttributeNames ==
    <<<<"h", "r", "e", "f">>,
      <<"s", "r", "c">>,
      <<"t", "e", "m", "p", "l", "a", "t", "e">>,
      <<"a", "c", "t", "i", "o", "n">>,
      <<"u", "r", "l">>>>

IncludeWord == <<"i", "n", "c", "l", "u", "d", "e">>

\* /\b(href|src|template|action|url)\s*(?:=|:|\()\s*(['"])([^'"]+?)\2/gi at offset o.
\* No attribute name is a prefix of another, so at most one alternative matches.
AttributeValueAt(s, o, name, q) ==
    IF ~q.found THEN NoMatch
    ELSE [found  |-> TRUE,
          index  |-> o,
          last   |-> q.last,
          groups |-> <<Substring(s, o, q.last),
                       Substring(s, o, o + Len(name)),
                       Substring(s, q.linkAt - 1, q.linkAt),
                       Substring(s, q.linkAt, q.last - 1)>>]

AttributeSeparatorAt(s, o, name, sep) ==
    IF sep >= Len(s) \/ s[sep + 1] \notin {"=", ":", "("} THEN NoMatch
    ELSE AttributeValueAt(s, o, name, QuotedAt(s, SkipSpace(s, sep + 1)))

AttributeNameAt(s, o, names) ==
    IF ~WordBoundary(s, o) \/ names = {} THEN NoMatch
    ELSE AttributeSeparatorAt(s, o, AttributeNames[Min(names)],
                              SkipSpace(s, o + Len(AttributeNames[Min(names)])))

AttributeMatchAt(s, o) ==
    AttributeNameAt(s, o, {n \in 1..Len(AttributeNames) : LiteralAt(s, AttributeNames[n], o)})

\* /\binclude\s+(['"])([^'"]+?)\1/gi at offset o
IncludeValueAt(s, o, sp, q) ==
    IF sp = o + Len(IncludeWord) \/ ~q.found THEN NoMatch
    ELSE [found  |-> TRUE,
          index  |-> o,
          last   |-> q.last,
          groups |-> <<Substring(s, o, q.last),
                       Substring(s, q.linkAt - 1, q.linkAt),
                       Substring(s, q.linkAt, q.last - 1)>>]

IncludeSpaceAt(s, o, sp) == IncludeValueAt(s, o, sp, QuotedAt(s, sp))

IncludeMatchAt(s, o) ==
    IF ~WordBoundary(s, o) \/ ~LiteralAt(s, IncludeWord, o) THEN NoMatch
    ELSE IncludeSpaceAt(s, o, SkipSpace(s, o + Len(IncludeWord)))

\* the two link pattern rules
Rules == {1, 2}

\* LinkPattern.linkIndex
linkIndex == <<3, 2>>

PatternMatchAt(r, s, o) == IF r = 1 THEN AttributeMatchAt(s, o) ELSE IncludeMatchAt(s, o)

\* pattern.exec(s) of a global pattern whose lastIndex is li: the leftmost match
\* at or after li, and the lastIndex it leaves (the end of the match, 0 on failure)
ExecResult(m) == [match |-> m, lastIndex |-> m.last]

\* an exec that leaves lastIndex at the end of the text when it fails
ExecFromKeepsEnd(r, s, hits) ==
    IF hits = {} THEN [match |-> NoMatch, lastIndex |-> Len(s)]
    ELSE ExecResult(PatternMatchAt(r, s, Min(hits)))

ExecFrom(r, s, hits) ==
    IF hits = {} THEN ExecResult(NoMatch) ELSE ExecResult(PatternMatchAt(r, s, Min(hits)))

Exec(r, s, li) == ExecFrom(r, s, {o \in li..Len(s) : PatternMatchAt(r, s, o).found})

\* match[k]
Group(m, k) == m.groups[k + 1]

-----------------------------------------------------------------------------
(* Locations: Uri.parse, Uri.joinPath, fsPath, workspace folders *)

\* the segments of a path: its maximal runs of characters other than "/"
RECURSIVE SplitPath(_, _, _)
SplitPath(s, k, cur) ==
    IF k > Len(s) THEN (IF cur = <<>> THEN <<>> ELSE <<cur>>)
    ELSE IF s[k] = "/"
         THEN (IF cur = <<>> THEN <<>> ELSE <<cur>>) \o SplitPath(s, k + 1, <<>>)
         ELSE SplitPath(s, k + 1, Append(cur, s[k]))

\* posix.normalize on the segments of an absolute path: "." is dropped and ".."
\* removes the segment before it (and is itself dropped at the root)
RECURSIVE NormalizeSegments(_, _)
NormalizeSegments(segs, acc) ==
    IF segs = <<>> THEN acc
    ELSE LET seg == Head(segs)
         IN  IF seg = <<".">> THEN NormalizeSegments(Tail(segs), acc)
             ELSE IF seg = <<".", ".">>
                  THEN NormalizeSegments(Tail(segs),
                           IF acc = <<>> THEN acc ELSE SubSeq(acc, 1, Len(acc) - 1))
                  ELSE NormalizeSegments(Tail(segs), Append(acc, seg))

RECURSIVE JoinSegments(_)
JoinSegments(segs) ==
    IF segs = <<>> THEN <<>> ELSE <<"/">> \o Head(segs) \o JoinSegments(Tail(segs))

\* posix.normalize of an absolute path; a trailing separator is kept
PathOfSegments(segs, trailing) ==
    IF segs = <<>> THEN <<"/">>
    ELSE JoinSegments(segs) \o (IF trailing THEN <<"/">> ELSE <<>>)

NormalizePath(p) ==
    PathOfSegments(NormalizeSegments(SplitPath(p, 1, <<>>), <<>>), p[Len(p)] = "/")

\* Uri.joinPath(base, fragment).fsPath for a file location: posix.join, which
\* skips an empty fragment and normalizes what it joined
JoinPath(base, fragment) ==
    NormalizePath(IF fragment = <<>> THEN base ELSE base \o <<"/">> \o fragment)

\* Uri.parse(value).path for a value without scheme: the scheme becomes "file"
\* and the path is made absolute
ParsePath(value) == IF StartsWith(value, <<"/">>) THEN value ELSE <<"/">> \o value

\* workspace.workspaceFolders
WorkspaceFolders == {<<"/", "w">>}

\* the value `undefined`, where a location or a path is expected
Undefined == <<>>

\* whether location p is folder f or lies under it
IsUnder(p, f) == p = f \/ StartsWith(p, f \o <<"/">>)

\* workspace.getWorkspaceFolder(uri): the nearest enclosing workspace folder
Nearest(enclosing) ==
    IF enclosing = {} THEN Undefined
    ELSE CHOOSE f \in enclosing : \A g \in enclosing : Len(g) <= Len(f)

GetWorkspaceFolder(p) == Nearest({f \in WorkspaceFolders : IsUnder(p, f)})

-----------------------------------------------------------------------------
(* The file system and its probe *)

Kinds == {"absent", "file", "dir"}

\* the entry at path p (a trailing separator names a directory only)
KindAt(q) == IF q \in DOMAIN fs THEN fs[q] ELSE "absent"

EntryAt(p) ==
    IF Len(p) > 1 /\ p[Len(p)] = "/"
    THEN (IF KindAt(SubSeq(p, 1, Len(p) - 1)) = "dir" THEN "dir" ELSE "absent")
    ELSE KindAt(p)

StatResult(kind, failed) == IF failed \/ kind = "absent" THEN "throws" ELSE kind

\* workspace.fs.stat(p): the FileType, or "throws" when the entry is absent or
\* the probe itself fails (failed: permission, I/O error)
Stat(p, failed) == StatResult(EntryAt(p), failed)

\* fileExists(path), once its stat has completed: try { await stat } catch { false }
fileExists(p, failed) == Stat(p, failed) # "throws"

-----------------------------------------------------------------------------
(* TextDocument: positionAt, offsetAt, getText(range) *)

Max(S) == CHOOSE m \in S : \A n \in S : n <= m

\* document.positionAt(offset): the line is the number of line breaks before
\* the offset, the character the distance from the start of that line
PositionAt(text, offset) ==
    LET breaks == {k \in 0..(offset - 1) : text[k + 1] = "\n"}
    IN  [line      |-> Cardinality(breaks),
         character |-> IF breaks = {} THEN offset ELSE offset - (Max(breaks) + 1)]

\* document.offsetAt(position)
OffsetAt(text, pos) ==
    LET starts == {0} \cup {k + 1 : k \in {j \in 0..(Len(text) - 1) : text[j + 1] = "\n"}}
        before(o) == Cardinality({k \in starts : k < o})
    IN  (CHOOSE o \in starts : before(o) = pos.line) + pos.character

\* document.getText(range)
GetText(text, range) == Substring(text, OffsetAt(text, range.start), OffsetAt(text, range.end))

-----------------------------------------------------------------------------
(* resolveLink, up to its first file system probe *)

\* isUri(link): the link text carries an explicit scheme, "scheme:..." (the
\* first of : / ? # in it is a colon that is not its first character)
isUri(link) ==
    LET first == FirstOf(link, {":", "/", "?", "#"}, 0)
    IN  first > 0 /\ first < Len(link) /\ link[first + 1] = ":"

\* whether Uri.parse(link) throws for a link with a scheme: the scheme is not
\* of the form \w[\w\d+.-]*, or the path starts with // without an authority
UriParseThrows(link) ==
    LET colon  == FirstOf(link, {":"}, 0)
        scheme == Substring(link, 0, colon)
        rest   == Slice(link, colon + 1)
    IN  \/ ~IsWordChar(scheme[1])
        \/ \E k \in 2..Len(scheme) : ~(IsWordChar(scheme[k]) \/ scheme[k] \in {"+", ".", "-"})
        \/ StartsWith(rest, <<"/", "/", "/", "/">>)

\* link.split(/[?#]/)[0]
LinkPath(link) == Substring(link, 0, FirstOf(link, {"?", "#"}, 0))

\* resourcePath: relative to the workspace folder of the document for a link
\* path that starts with "/" (undefined outside every folder), otherwise
\* joined onto Uri.parse(document.fileName)
RootRelative(root, linkPath) ==
    IF root # Undefined THEN JoinPath(root, linkPath) ELSE Undefined

ResourcePathOf(doc, linkPath) ==
    IF linkPath # <<>> /\ linkPath[1] = "/"
    THEN RootRelative(GetWorkspaceFolder(doc.fileName), linkPath)
    ELSE JoinPath(ParsePath(doc.fileName), linkPath)

ResourcePath(doc, link) == ResourcePathOf(doc, LinkPath(link))

\* resolveLink(document, link) until it returns or awaits fileExists:
\* "return" with the target (Undefined for none), or "probe" with resourcePath
ProbeOrReturn(resourcePath) ==
    IF resourcePath = Undefined THEN [kind |-> "return", value |-> Undefined]
    ELSE [kind |-> "probe", value |-> resourcePath]

\* a resolveLink without the scheme check of lines 70-79
ResolveLinkStartUnchecked(doc, link) ==
    IF StartsWith(link, <<"#">>) THEN [kind |-> "return", value |-> Undefined]
    ELSE ProbeOrReturn(ResourcePath(doc, link))

\* a resolveLink without the fragment check of lines 65-67
ResolveLinkStartFragmentResolved(doc, link) ==
    IF isUri(link) /\ ~UriParseThrows(link) THEN [kind |-> "return", value |-> link]
    ELSE ProbeOrReturn(ResourcePath(doc, link))

ResolveLinkStart(doc, link) ==
    IF StartsWith(link, <<"#">>) THEN [kind |-> "return", value |-> Undefined]
    ELSE IF isUri(link) /\ ~UriParseThrows(link) THEN [kind |-> "return", value |-> link]
    ELSE ProbeOrReturn(ResourcePath(doc, link))

-----------------------------------------------------------------------------
(* provideDocumentLinks *)

\* the calls of provideDocumentLinks on the one provider instance
Calls == {1, 2}

Origin == [line |-> 0, character |-> 0]

\* a forEach callback that has not run yet
IdleCallback ==
    [pc |-> "idle", index |-> 0, link |-> <<>>, linkStart |-> Origin, linkEnd |-> Origin,
     path |-> Undefined, ret |-> Undefined, early |-> FALSE, probed |-> 0,
     stat |-> "none", log |-> <<>>]

NoDocument == [text |-> <<>>, fileName |-> <<>>]

FreeCall ==
    [state |-> "free", doc |-> NoDocument, results |-> <<>>, match |-> NoMatch,
     cb |-> [r \in Rules |-> IdleCallback],
     delivered |-> FALSE, delivery |-> <<>>, overlapped |-> FALSE]

\* a push that takes the span from the variable `match` as it stands after the
\* await: the span of whatever match was assigned last, nothing for null
PushAtSharedMatch(c, r, target) ==
    IF c.match.found
    THEN Append(c.results, [range  |-> [start |-> PositionAt(c.doc.text, c.match.index),
                                       end   |-> PositionAt(c.doc.text, c.match.last)],
                            target |-> target])
    ELSE c.results

\* results.push(new DocumentLink(new Range(linkStart, linkEnd), target)) in the
\* callback of rule r of call c: linkStart and linkEnd are the constants of
\* the iteration, computed before the await
Push(c, r, target) ==
    Append(c.results, [range  |-> [start |-> c.cb[r].linkStart, end |-> c.cb[r].linkEnd],
                       target |-> target])

\* The callback of rule r at its await: link and span are computed from the
\* match (lines 35-39) and resolveLink has run until it returned or probed
\* (start).  sync tells whether provideDocumentLinks has not returned yet.
AtAwait(old, text, m, link, offset, start, sync) ==
    [old EXCEPT
        !.pc        = IF start.kind = "return" THEN "micro" ELSE "exists",
        !.index     = m.index,
        !.link      = link,
        !.linkStart = PositionAt(text, offset),
        !.linkEnd   = PositionAt(text, offset + Len(link)),
        !.path      = IF start.kind = "probe" THEN start.value ELSE Undefined,
        !.ret       = IF start.kind = "return" THEN start.value ELSE Undefined,
        !.early     = sync /\ start.kind = "return",
        !.probed    = IF start.kind = "probe" THEN 1 ELSE 0,
        !.stat      = "none"]

\* a loop body that takes the start of the whole match for the start of the link
LoopBodyAtMatchStart(old, doc, m, link, sync) ==
    AtAwait(old, doc.text, m, link, m.index, ResolveLinkStart(doc, link), sync)

\* lines 35-41 of the loop body
LoopBody(old, doc, m, link, sync) ==
    AtAwait(old, doc.text, m, link, m.index + IndexOf(Group(m, 0), link),
            ResolveLinkStart(doc, link), sync)

\* the loop after `match = pattern.exec(documentText)` gave e: on null the
\* loop ends
LoopStep(w, r, sync, e) ==
    [call |-> [w.call EXCEPT
                  !.match = e.match,
                  !.cb[r] = IF e.match.found
                            THEN LoopBody(@, w.call.doc, e.match,
                                          Group(e.match, linkIndex[r]), sync)
                            ELSE [@ EXCEPT !.pc = "done", !.early = FALSE]],
     li   |-> [w.li EXCEPT ![r] = e.lastIndex]]

\* The while loop of rule r's callback, from its condition to the next await.
\* w is [call, li]: the call's record and the patterns' lastIndex.
ScanNext(w, r, sync) == LoopStep(w, r, sync, Exec(r, w.call.doc.text, w.li[r]))

\* a callback without the catch: a raise ends it
NextIterationUncaught(w, r, outcome) ==
    IF outcome = "raised"
    THEN [w EXCEPT !.call.cb[r].pc = "done", !.call.cb[r].early = FALSE]
    ELSE ScanNext(w, r, FALSE)

\* The end of the try statement (lines 50-53): whatever the outcome, a raise
\* included, the callback goes back to the loop condition
NextIteration(w, r, outcome) == ScanNext(w, r, FALSE)

\* The callback after `await this.resolveLink(...)` gave outcome ("target",
\* "none", or "raised", which the catch swallows): push the link for a target,
\* then go round the loop
AfterResolve(w, r, outcome, target) ==
    NextIteration([w EXCEPT
                      !.call.results = IF outcome = "target"
                                       THEN Push(w.call, r, target) ELSE @,
                      !.call.cb[r].log = Append(@, [index   |-> w.call.cb[r].index,
                                                    link    |-> w.call.cb[r].link,
                                                    outcome |-> outcome,
                                                    target  |-> IF outcome = "target"
                                                                THEN target ELSE Undefined,
                                                    probed  |-> w.call.cb[r].probed,
                                                    stat    |-> w.call.cb[r].stat])],
                  r, outcome)

\* whether some callback of call c has not finished its loop
Active(c) == call[c].state = "called" /\ \E r \in Rules : call[c].cb[r].pc # "done"

\* whether every callback of call c has finished its loop
AllDone(c) == call[c].state = "called" /\ \A r \in Rules : call[c].cb[r].pc = "done"

\* No continuation is queued as a microtask and every promise returned so far
\* has reached its caller: the event loop takes the next I/O completion only then
Quiescent ==
    \A c \in Calls : call[c].state = "called" =>
        /\ call[c].delivered
        /\ \A r \in Rules : call[c].cb[r].pc # "micro"

\* this.linkPatterns.forEach(async ...): the callbacks of rule 1 and of rule 2
\* run one after the other, each to its first await
ForEach(w) == ScanNext(ScanNext(w, 1, TRUE), 2, TRUE)

\* provideDocumentLinks(document, _token), from its entry to `return results`:
\* forEach starts the callback of each rule in turn, each runs to its first
\* await, and the (still growing) results array is returned
provideDocumentLinks(c, d) ==
    /\ call[c].state = "free"
    /\ \A b \in Calls : b < c => call[b].state # "free"
    /\ \E w \in {ForEach([call |-> [FreeCall EXCEPT !.state = "called", !.doc = d,
                                                     !.overlapped = \E b \in Calls : Active(b)],
                           li   |-> lastIndex])} :
          /\ call' = [b \in Calls |->
                         IF b = c THEN w.call
                         ELSE [call[b] EXCEPT !.overlapped = @ \/ Active(b)]]
          /\ lastIndex' = w.li
    /\ UNCHANGED <<fs, fsChanges, mappings, dp, listing>>

\* The promise of provideDocumentLinks reaches its caller: a microtask queued
\* after the continuations that were queued before the return
Deliver(c) ==
    /\ call[c].state = "called"
    /\ ~call[c].delivered
    /\ \A r \in Rules : ~call[c].cb[r].early
    /\ call' = [call EXCEPT ![c].delivered = TRUE, ![c].delivery = call[c].results]
    /\ UNCHANGED <<fs, fsChanges, lastIndex, mappings, dp, listing>>

\* The continuation of `await this.resolveLink(...)` when resolveLink returned
\* without probing (lines 65-79, or no resourcePath): a microtask
Resume(c, r) ==
    /\ call[c].state = "called"
    /\ call[c].cb[r].pc = "micro"
    /\ \E w \in {AfterResolve([call |-> call[c], li |-> lastIndex], r,
                              IF call[c].cb[r].ret = Undefined THEN "none" ELSE "target",
                              call[c].cb[r].ret)} :
          call' = [call EXCEPT ![c] = w.call] /\ lastIndex' = w.li
    /\ UNCHANGED <<fs, fsChanges, mappings, dp, listing>>

\* `await fileExists(resourcePath.fsPath)` completes (line 98): on true
\* workspace.fs.stat(resourcePath) is issued, on false resolveLink returns
\* undefined and the callback goes on
FileExistsDone(c, r) ==
    /\ Quiescent
    /\ call[c].cb[r].pc = "exists"
    /\ \E failed \in BOOLEAN :
          IF fileExists(call[c].cb[r].path, failed)
          THEN /\ call' = [call EXCEPT ![c].cb[r].pc = "stat", ![c].cb[r].probed = @ + 1]
               /\ UNCHANGED lastIndex
          ELSE \E w \in {AfterResolve([call |-> call[c], li |-> lastIndex], r,
                                      "none", Undefined)} :
                  call' = [call EXCEPT ![c] = w.call] /\ lastIndex' = w.li
    /\ UNCHANGED <<fs, fsChanges, mappings, dp, listing>>

\* a resolveLink that accepts whatever exists
StatOutcomeAnyKind(st) == IF st = "throws" THEN "raised" ELSE "target"

\* what resolveLink makes of the stat of line 99
StatOutcome(st) ==
    IF st = "throws" THEN "raised" ELSE IF st = "file" THEN "target" ELSE "none"

\* `await workspace.fs.stat(resourcePath)` completes (lines 99-105): a File is
\* the target, another kind is no target, and a stat that throws makes
\* resolveLink raise, which the callback's catch swallows
StatDone(c, r) ==
    /\ Quiescent
    /\ call[c].cb[r].pc = "stat"
    /\ \E failed \in BOOLEAN :
       \E st \in {Stat(call[c].cb[r].path, failed)} :
       \E w \in {AfterResolve([call |-> [call[c] EXCEPT !.cb[r].stat = st], li |-> lastIndex],
                              r, StatOutcome(st), call[c].cb[r].path)} :
          call' = [call EXCEPT ![c] = w.call] /\ lastIndex' = w.li
    /\ UNCHANGED <<fs, fsChanges, mappings, dp, listing>>

-----------------------------------------------------------------------------
(* resolveDottedPaths and its tiers *)

\* resolveRelativePath(baseUri, appendingPath)
resolveRelativePath(baseUri, appendingPath) == JoinPath(baseUri, appendingPath)

RootJoin(root, appendingPath) ==
    IF root = Undefined THEN Undefined ELSE JoinPath(root, appendingPath)

\* resolveRootPath(baseUri, appendingPath): undefined outside every workspace folder
resolveRootPath(baseUri, appendingPath) ==
    RootJoin(GetWorkspaceFolder(baseUri), appendingPath)

\* new RegExp(`^${slicedLogicalPath}(?:\/|$)`).test(normalizedPath): the logical
\* path is read as a pattern, in which "." stands for any character (the other
\* pattern operators are kept out of the logical paths of this model)
LogicalPathStartPattern(slicedLogicalPath, normalizedPath) ==
    /\ Len(slicedLogicalPath) <= Len(normalizedPath)
    /\ \A k \in 1..Len(slicedLogicalPath) :
          \/ slicedLogicalPath[k] = "." /\ normalizedPath[k] # "\n"
          \/ slicedLogicalPath[k] = normalizedPath[k]
    /\ \/ Len(normalizedPath) = Len(slicedLogicalPath)
       \/ normalizedPath[Len(slicedLogicalPath) + 1] = "/"

\* whether mapping k of the setting matches appendingPath (lines 138-142)
MappingMatches(k, appendingPath) ==
    LogicalPathStartPattern(Slice(mappings[k].logicalPath, 1),
                            ReplaceChar(appendingPath, "\\", "/"))

\* the directoryPath of line 143: verbatim for a physical (or unset) mapping,
\* otherwise resolved against the workspace folder of baseUri
DirectoryPath(k, baseUri) ==
    IF mappings[k].isPhysicalDirectoryPath \in {"undefined", "true"}
    THEN mappings[k].directoryPath
    ELSE resolveRootPath(baseUri, mappings[k].directoryPath)

\* Uri.parse(directoryPath).path; handed undefined, the library converts it to
\* the text "undefined" when it does not reject it
ParseDirectory(directoryPath) ==
    IF directoryPath = Undefined
    THEN ParsePath(<<"u", "n", "d", "e", "f", "i", "n", "e", "d">>)
    ELSE ParsePath(directoryPath)

\* mappedPath of line 144 for mapping k
MappedPath(k, baseUri, appendingPath) ==
    JoinPath(ParseDirectory(DirectoryPath(k, baseUri)),
             Slice(appendingPath, Len(Slice(mappings[k].logicalPath, 1))))

\* the mappings that match, in the order of the setting
MatchingMappings(appendingPath) ==
    SelectSeq([k \in 1..Len(mappings) |-> k], LAMBDA k : MappingMatches(k, appendingPath))

\* resolveCustomMappingPaths(baseUri, appendingPath): one candidate per
\* matching mapping; it raises when Uri.parse rejects an undefined directoryPath
\* (rejects: whether the library does so)
CustomMappingPaths(matching, baseUri, appendingPath, rejects) ==
    [raised |-> rejects /\ \E j \in 1..Len(matching) :
                               DirectoryPath(matching[j], baseUri) = Undefined,
     paths  |-> [j \in 1..Len(matching) |->
                    [mapping |-> matching[j],
                     path    |-> MappedPath(matching[j], baseUri, appendingPath)]]]

resolveCustomMappingPaths(baseUri, appendingPath, rejects) ==
    CustomMappingPaths(MatchingMappings(appendingPath), baseUri, appendingPath, rejects)

\* dotPath.replace(/\./g, '/')
NormalizedPath(dotPath) == ReplaceChar(dotPath, ".", "/")

\* a resolver that returns after a hit whatever the path
ReturnsOnHitAlways(normalizedPath) == TRUE

\* a resolver that goes on to the next tier after a hit
ReturnsOnHitNever(normalizedPath) == FALSE

\* `if (normalizedPath.length > 0) return paths;` after a hit (lines 74, 84, 95)
ReturnsOnHit(normalizedPath) == Len(normalizedPath) > 0

\* no run before this one
NoRun == [pc |-> "idle", paths |-> <<>>, rejects |-> FALSE, failed |-> FALSE, fsChanges |-> 0]

\* failed: whether a probe of the run failed for an entry that exists;
\* fsChanges: the count of file system changes when the run began;
\* run: how many runs have begun; previous: how the run before this one ended
DpIdle ==
    [pc |-> "idle", dotPath |-> <<>>, baseUri |-> <<>>, rejects |-> FALSE,
     probing |-> Undefined, queue |-> <<>>, mapped |-> FALSE, matched |-> <<>>,
     custom |-> <<>>, paths |-> <<>>, log |-> <<>>,
     failed |-> FALSE, fsChanges |-> 0, run |-> 0, previous |-> NoRun]

\* how many times resolveDottedPaths is run on the same inputs
MaxRuns == 2

\* what a run that is over leaves for the comparison with the next
Ended(d) ==
    IF d.run = 0 THEN NoRun
    ELSE [pc |-> d.pc, paths |-> d.paths, rejects |-> d.rejects, failed |-> d.failed,
          fsChanges |-> d.fsChanges]

\* a list that outlives the run
PathsKept(d) == d.paths

\* `let paths: string[] = [];` (line 63)
PathsAtEntry(d) == <<>>

\* the for loop of lines 91-99 at its next candidate, or the final return
NextMapped(d) ==
    IF d.queue = <<>> THEN [d EXCEPT !.pc = "returned", !.probing = Undefined]
    ELSE [d EXCEPT !.pc = "mapping", !.probing = Head(d.queue).path]

\* line 90: the custom mapping candidates are computed, all before any is probed
EnterMappings(d, custom) ==
    IF custom.raised THEN [d EXCEPT !.pc = "raised", !.probing = Undefined]
    ELSE NextMapped([d EXCEPT !.queue = custom.paths, !.mapped = TRUE,
                              !.custom = [j \in 1..Len(custom.paths) |-> custom.paths[j].path],
                              !.matched = [j \in 1..Len(custom.paths) |-> custom.paths[j].mapping]])

ToMappings(d) ==
    EnterMappings(d, resolveCustomMappingPaths(d.baseUri, NormalizedPath(d.dotPath), d.rejects))

\* lines 80-81: the root tier is probed only for a root path that is defined
EnterRoot(d, rootPath) ==
    IF rootPath # Undefined /\ rootPath # <<>>
    THEN [d EXCEPT !.pc = "root", !.probing = rootPath]
    ELSE ToMappings(d)

\* a resolver without the root tier
ToRootSkipped(d) == ToMappings(d)

ToRoot(d) == EnterRoot(d, resolveRootPath(d.baseUri, NormalizedPath(d.dotPath)))

\* what a completed fileExists(d.probing) does to the run: a hit is pushed and,
\* for a non-empty path, returned at once; otherwise onward leads to the next
\* candidate
Probed(d, tier, hit, onward) ==
    IF hit /\ ReturnsOnHit(NormalizedPath(d.dotPath))
    THEN [d EXCEPT !.pc = "returned", !.probing = Undefined,
                   !.paths = Append(@, d.probing),
                   !.log = Append(@, [tier |-> tier, path |-> d.probing, hit |-> hit])]
    ELSE [onward EXCEPT !.paths = IF hit THEN Append(@, d.probing) ELSE @,
                        !.log = Append(@, [tier |-> tier, path |-> d.probing, hit |-> hit])]

\* resolveDottedPaths(dotPath, baseUri) up to `await fileExists(localPath)`
resolveDottedPaths(dotPath, baseUri, rejects) ==
    /\ dp.pc \in {"idle", "returned", "raised"}
    /\ dp.run < MaxRuns
    /\ dp' = [DpIdle EXCEPT !.pc = "local", !.dotPath = dotPath, !.baseUri = baseUri,
                            !.rejects = rejects,
                            !.paths = PathsAtEntry(dp),
                            !.probing = resolveRelativePath(baseUri, NormalizedPath(dotPath)),
                            !.fsChanges = fsChanges,
                            !.run = dp.run + 1,
                            !.previous = Ended(dp)]
    /\ UNCHANGED <<fs, fsChanges, lastIndex, call, mappings, listing>>

\* fileExists(localPath) completes (lines 71-77)
LocalDone ==
    /\ dp.pc = "local"
    /\ \E failed \in BOOLEAN :
       \E d \in {[dp EXCEPT !.failed = @ \/ (failed /\ EntryAt(dp.probing) # "absent")]} :
          dp' = Probed(d, "local", fileExists(d.probing, failed), ToRoot(d))
    /\ UNCHANGED <<fs, fsChanges, lastIndex, call, mappings, listing>>

\* fileExists(rootPath) completes (lines 81-87)
RootDone ==
    /\ dp.pc = "root"
    /\ \E failed \in BOOLEAN :
       \E d \in {[dp EXCEPT !.failed = @ \/ (failed /\ EntryAt(dp.probing) # "absent")]} :
          dp' = Probed(d, "root", fileExists(d.probing, failed), ToMappings(d))
    /\ UNCHANGED <<fs, fsChanges, lastIndex, call, mappings, listing>>

\* fileExists(mappedPath) completes (lines 92-98)
MappedDone ==
    /\ dp.pc = "mapping"
    /\ \E failed \in BOOLEAN :
       \E d \in {[dp EXCEPT !.failed = @ \/ (failed /\ EntryAt(dp.probing) # "absent")]} :
          dp' = Probed(d, "mapping", fileExists(d.probing, failed),
                       NextMapped([d EXCEPT !.queue = Tail(@)]))
    /\ UNCHANGED <<fs, fsChanges, lastIndex, call, mappings, listing>>

-----------------------------------------------------------------------------
(* filterDirectories and filterComponents *)

\* the FileType enumeration of the editor API; the type of a symbolic link is
\* SymbolicLink added to the type of what it points to
FileType == [Unknown |-> 0, File |-> 1, Directory |-> 2, SymbolicLink |-> 64]

\* whether /\.cfc$/i matches name at offset o
ComponentPatternAt(name, o) ==
    /\ o >= 0
    /\ o + 4 = Len(name)
    /\ name[o + 1] = "."
    /\ Fold(name[o + 2]) = "c"
    /\ Fold(name[o + 3]) = "f"
    /\ Fold(name[o + 4]) = "c"

\* pattern.test(name) for the global pattern /\.cfc$/gi whose lastIndex is
\* from: the search starts at from, a match leaves lastIndex at its end and
\* a failure resets it to 0
ComponentPatternTest(name, from) ==
    IF \E o \in from..Len(name) : ComponentPatternAt(name, o)
    THEN [found |-> TRUE, lastIndex |-> Len(name)]
    ELSE [found |-> FALSE, lastIndex |-> 0]

\* a pattern object that is created once and shared by all invocations
SharedPatternLastIndex(left) == left

\* The lastIndex of the pattern that an invocation of the callback tests
\* with, where left is what the previous test left behind: the literal of
\* line 40 is evaluated in each invocation and yields a new pattern object
LiteralLastIndex(left) == 0

\* a callback that keeps whatever it is handed
IsAnything(file) == TRUE

\* the callback of filterDirectories (lines 20-26)
IsDirectory(file) == file.type = FileType.Directory

\* The callback of filterComponents (lines 39-45) on file; left is the
\* lastIndex the previous test left behind.  The pattern is tested only for
\* a File.
IsComponent(file, left) ==
    IF file.type = FileType.File
    THEN ComponentPatternTest(file.name, LiteralLastIndex(left))
    ELSE [found |-> FALSE, lastIndex |-> left]

\* files.filter(callback) of filterComponents, from the entry after done
RECURSIVE FilterComponentsFrom(_, _, _)
KeepComponent(files, done, t) ==
    (IF t.found THEN <<files[done + 1]>> ELSE <<>>)
        \o FilterComponentsFrom(files, done + 1, t.lastIndex)

FilterComponentsFrom(files, done, left) ==
    IF done >= Len(files) THEN <<>>
    ELSE KeepComponent(files, done, IsComponent(files[done + 1], left))

NoListing == [files |-> <<>>, ran |-> {}, directories |-> <<>>, components |-> <<>>]

\* filterDirectories(files)
filterDirectories ==
    /\ "directories" \notin listing.ran
    /\ listing' = [listing EXCEPT !.ran = @ \cup {"directories"},
                                  !.directories = SelectSeq(listing.files, IsDirectory)]
    /\ UNCHANGED <<fs, fsChanges, lastIndex, call, mappings, dp>>

\* filterComponents(files)
filterComponents ==
    /\ "components" \notin listing.ran
    /\ listing' = [listing EXCEPT !.ran = @ \cup {"components"},
                                  !.components = FilterComponentsFrom(listing.files, 0, 0)]
    /\ UNCHANGED <<fs, fsChanges, lastIndex, call, mappings, dp>>

-----------------------------------------------------------------------------
(* The environment *)

\* how often the file system changes behind the program's back
MaxFsChanges == 1

\* Another process creates, removes or replaces the entry at path p
FsChange(p, k) ==
    /\ fsChanges < MaxFsChanges
    /\ fs[p] # k
    /\ fs' = [fs EXCEPT ![p] = k]
    /\ fsChanges' = fsChanges + 1
    /\ UNCHANGED <<lastIndex, call, mappings, dp, listing>>

-----------------------------------------------------------------------------
(* The link provider's specification *)

\* src='../f' include '/f'
TextMixed == <<"s", "r", "c", "=", "'", ".", ".", "/", "f", "'", " ", "i", "n", "c", "l", "u", "d", "e", " ", "'", "/", "f", "'">>

\* src='#a' and, on the next line, url:'l:'
TextScheme == <<"s", "r", "c", "=", "'", "#", "a", "'", "\n", "u", "r", "l", ":", "'", "l", ":", "'">>

\* src='../d' src='../f'
TextTwo == <<"s", "r", "c", "=", "'", ".", ".", "/", "d", "'", " ", "s", "r", "c", "=", "'", ".", ".", "/", "f", "'">>

InWorkspace == <<"/", "w", "/", "a", ".", "c", "f", "m">>
Outside == <<"/", "x", "/", "a", ".", "c", "f", "m">>

Documents ==
    {[text |-> TextMixed, fileName |-> InWorkspace],
     [text |-> TextScheme, fileName |-> InWorkspace],
     [text |-> TextTwo, fileName |-> InWorkspace],
     [text |-> TextMixed, fileName |-> Outside]}

LinkFsPaths == {<<"/", "w", "/", "f">>, <<"/", "w", "/", "d">>}

InitLinks ==
    /\ fs \in [LinkFsPaths -> Kinds]
    /\ fsChanges = 0
    /\ lastIndex = [r \in Rules |-> 0]
    /\ call = [c \in Calls |-> FreeCall]
    /\ mappings = <<>>
    /\ dp = DpIdle
    /\ listing = NoListing

NextLinks ==
    \/ \E c \in Calls, d \in Documents : provideDocumentLinks(c, d)
    \/ \E c \in Calls : Deliver(c)
    \/ \E c \in Calls, r \in Rules : Resume(c, r)
    \/ \E c \in Calls, r \in Rules : FileExistsDone(c, r)
    \/ \E c \in Calls, r \in Rules : StatDone(c, r)
    \/ \E p \in DOMAIN fs, k \in Kinds : FsChange(p, k)

SpecLinks == InitLinks /\ [][NextLinks]_vars

-----------------------------------------------------------------------------
(* The dotted path resolver's specification *)

\* foo.bar, foo, foobar.baz, a.b and the empty dotted path
DotPaths ==
    {<<"f", "o", "o", ".", "b", "a", "r">>,
     <<"f", "o", "o">>,
     <<"f", "o", "o", "b", "a", "r", ".", "b", "a", "z">>,
     <<"a", ".", "b">>,
     <<>>}

\* a directory inside the workspace folder /w and one outside every folder
BaseUris == {<<"/", "w", "/", "d">>, <<"/", "x">>}

MappingTables ==
    {<<>>,
     <<[logicalPath |-> <<"/", "f", "o", "o">>, directoryPath |-> <<"/", "m">>, isPhysicalDirectoryPath |-> "undefined"]>>,
     <<[logicalPath |-> <<"/", "f", "o", "o">>, directoryPath |-> <<"l", "i", "b">>, isPhysicalDirectoryPath |-> "false"],
       [logicalPath |-> <<"/", "f", "o", "o">>, directoryPath |-> <<"/", "m">>, isPhysicalDirectoryPath |-> "true"]>>,
     <<[logicalPath |-> <<"/", "a", ".", "b">>, directoryPath |-> <<"/", "m">>, isPhysicalDirectoryPath |-> "true"],
       [logicalPath |-> <<"/">>, directoryPath |-> <<"/", "n">>, isPhysicalDirectoryPath |-> "undefined"]>>}

\* every candidate the resolver can build from these inputs
Candidates(dotPath, baseUri) ==
    {resolveRelativePath(baseUri, NormalizedPath(dotPath)),
     resolveRootPath(baseUri, NormalizedPath(dotPath))}
    \cup {MappedPath(k, baseUri, NormalizedPath(dotPath)) : k \in 1..Len(mappings)}

InitPaths ==
    /\ mappings \in MappingTables
    /\ \E dotPath \in DotPaths, baseUri \in BaseUris :
          /\ fs \in [Candidates(dotPath, baseUri) \ {Undefined} -> {"absent", "file"}]
          /\ dp = [DpIdle EXCEPT !.dotPath = dotPath, !.baseUri = baseUri]
    /\ fsChanges = 0
    /\ lastIndex = [r \in Rules |-> 0]
    /\ call = [c \in Calls |-> FreeCall]
    /\ listing = NoListing

NextPaths ==
    \/ \E rejects \in BOOLEAN : resolveDottedPaths(dp.dotPath, dp.baseUri, rejects)
    \/ LocalDone
    \/ RootDone
    \/ MappedDone
    \/ \E p \in DOMAIN fs, k \in {"absent", "file"} : FsChange(p, k)

SpecPaths == InitPaths /\ [][NextPaths]_vars

-----------------------------------------------------------------------------
(* The filters' specification *)

NameUpper == <<"F", "o", "o", ".", "C", "F", "C">>
NameLower == <<"f", "o", "o", ".", "c", "f", "c">>
NameLonger == <<"f", "o", "o", ".", "c", "f", "c", "t", "x", "t">>
NameBare == <<"c", "f", "c">>
NameSub == <<"s", "u", "b">>

\* the entries a listing is made of: component files, files that are none, a
\* directory with a component's name, a plain directory, and symbolic links
\* to a component file and to a directory
Entries ==
    {[name |-> NameUpper, type |-> FileType.File],
     [name |-> NameLower, type |-> FileType.File],
     [name |-> NameLonger, type |-> FileType.File],
     [name |-> NameBare, type |-> FileType.File],
     [name |-> NameLower, type |-> FileType.Directory],
     [name |-> NameSub, type |-> FileType.Directory],
     [name |-> NameLower, type |-> FileType.SymbolicLink + FileType.File],
     [name |-> NameSub, type |-> FileType.SymbolicLink + FileType.Directory]}

\* how many entries a listing has at most
MaxListing == 3

Listings == UNION {[1..n -> Entries] : n \in 0..MaxListing}

InitFilter ==
    /\ listing \in {[NoListing EXCEPT !.files = files] : files \in Listings}
    /\ fs = <<>>
    /\ fsChanges = 0
    /\ lastIndex = [r \in Rules |-> 0]
    /\ call = [c \in Calls |-> FreeCall]
    /\ mappings = <<>>
    /\ dp = DpIdle

NextFilter ==
    \/ filterDirectories
    \/ filterComponents

SpecFilter == InitFilter /\ [][NextFilter]_vars

-----------------------------------------------------------------------------
(* Claims about resolveDottedPaths, checked under SpecPaths *)

LocalPath == resolveRelativePath(dp.baseUri, NormalizedPath(dp.dotPath))

RootPath == resolveRootPath(dp.baseUri, NormalizedPath(dp.dotPath))

\* the local tier of a non-empty dotted path was probed and reported a hit
LocalHit == dp.dotPath # <<>> /\ Len(dp.log) >= 1 /\ dp.log[1].hit

\* C2: resolveDottedPaths is short-circuiting.  Once the local candidate of a
\* non-empty dotted path is found to exist, the run has returned, the local
\* probe is the only probe it ever issued, and the result is the one-element
\* list holding the local candidate.
C2_LocalHitShortCircuits ==
    LocalHit =>
        /\ dp.pc = "returned"
        /\ dp.log = <<[tier |-> "local", path |-> LocalPath, hit |-> TRUE]>>
        /\ dp.paths = <<LocalPath>>
        /\ ~dp.mapped

\* a local hit while the root tier and a matching mapping would each yield
\* another path that exists
C2_Witness ==
    /\ LocalHit
    /\ RootPath \notin {Undefined, LocalPath}
    /\ EntryAt(RootPath) = "file"
    /\ \E k \in 1..Len(mappings) :
          /\ MappingMatches(k, NormalizedPath(dp.dotPath))
          /\ MappedPath(k, dp.baseUri, NormalizedPath(dp.dotPath)) # LocalPath
          /\ EntryAt(MappedPath(k, dp.baseUri, NormalizedPath(dp.dotPath))) = "file"

\* C4: resolveDottedPaths never raises for an unresolvable context.  The run
\* never ends by raising, and a matching mapping whose directoryPath needs a
\* project root that baseUri does not have contributes no candidate.
C4_UnresolvableContextSkipped ==
    /\ dp.pc # "raised"
    /\ \A j \in 1..Len(dp.matched) : DirectoryPath(dp.matched[j], dp.baseUri) # Undefined

\* whether prefix is path, or is followed in path by a separator
IsSegmentPrefix(prefix, path) == path = prefix \/ StartsWith(path, prefix \o <<"/">>)

\* C5: a mapping contributes a candidate if and only if the normalized path
\* equals the mapping's logical path without its leading separator, or begins
\* with it followed by a separator.
C5_MappingPrefixMatch ==
    dp.mapped =>
        \A k \in 1..Len(mappings) :
            (\E j \in 1..Len(dp.matched) : dp.matched[j] = k)
                <=> IsSegmentPrefix(Slice(mappings[k].logicalPath, 1), NormalizedPath(dp.dotPath))

\* whether the run in dp is over
Over == dp.pc \in {"returned", "raised"}

\* Nothing came between the run in dp and the run before it: the file system
\* has not changed since that run began, no probe of either failed for an
\* entry that exists, and the library treated both runs alike
Undisturbed ==
    /\ dp.previous.fsChanges = fsChanges
    /\ ~dp.failed /\ ~dp.previous.failed
    /\ dp.previous.rejects = dp.rejects

\* C14: resolveDottedPaths is idempotent.  A second run with the same dotted
\* path and base location, with the file system, the workspace folders and
\* the mappings unchanged since the first began, ends as the first did and
\* with the same list.
C14_Idempotent ==
    (dp.run >= 2 /\ Over /\ Undisturbed) =>
        /\ dp.pc = dp.previous.pc
        /\ dp.paths = dp.previous.paths

\* a second undisturbed run has returned a list that is not empty
C14_Witness ==
    /\ dp.run >= 2
    /\ dp.pc = "returned"
    /\ Undisturbed
    /\ dp.paths # <<>>
    /\ dp.previous.paths = dp.paths

\* the candidates of the run in dp in their priority order: the local one, the
\* root one if baseUri has a workspace folder, and one per matching mapping in
\* the order of the setting
MappingCandidates(matching) ==
    [j \in 1..Len(matching) |-> MappedPath(matching[j], dp.baseUri, NormalizedPath(dp.dotPath))]

CandidateOrder ==
    <<LocalPath>> \o (IF RootPath = Undefined THEN <<>> ELSE <<RootPath>>)
        \o MappingCandidates(MatchingMappings(NormalizedPath(dp.dotPath)))

\* the candidates that exist, in their priority order
Existing == SelectSeq(CandidateOrder, LAMBDA p : EntryAt(p) # "absent")

\* every probe of the run in dp saw the file system as it is now
Stable == dp.fsChanges = fsChanges /\ ~dp.failed

\* the probes of the run so far were of the first candidates, in their order
ProbedInOrder ==
    /\ Len(dp.log) <= Len(CandidateOrder)
    /\ \A j \in 1..Len(dp.log) : dp.log[j].path = CandidateOrder[j]
    /\ Stable => \A j \in 1..Len(dp.log) : dp.log[j].hit <=> EntryAt(dp.log[j].path) # "absent"

\* C15: for a non-empty dotted path the candidates are probed in the order
\* local, root (if there is a project root), mappings in the order of the
\* table; a miss proceeds to the next candidate, the first hit ends the run
\* with the one-element list of that candidate, and when no candidate exists
\* the list is empty.
C15_FirstExistingCandidate ==
    dp.dotPath # <<>> =>
        /\ ProbedInOrder
        /\ \A j \in 1..(Len(dp.log) - 1) : ~dp.log[j].hit
        /\ dp.pc \in {"local", "root", "mapping"} =>
              /\ \A j \in 1..Len(dp.log) : ~dp.log[j].hit
              /\ dp.probing = CandidateOrder[Len(dp.log) + 1]
        /\ dp.pc = "returned" =>
              /\ dp.log # <<>>
              /\ IF dp.log[Len(dp.log)].hit
                 THEN dp.paths = <<dp.log[Len(dp.log)].path>>
                 ELSE Len(dp.log) = Len(CandidateOrder) /\ dp.paths = <<>>
              /\ Stable => dp.paths = (IF Existing = <<>> THEN <<>> ELSE <<Head(Existing)>>)

\* the local, the root and the first mapping candidate of a non-empty dotted
\* path were missed and the second mapping candidate was returned
C15_Witness ==
    /\ dp.dotPath # <<>>
    /\ dp.pc = "returned"
    /\ Stable
    /\ Len(dp.log) = 4
    /\ dp.log[2].tier = "root"
    /\ dp.paths = <<CandidateOrder[4]>>

\* the effective base of mapping k: its directoryPath as it stands when the
\* mapping is physical or does not say, otherwise resolved against the
\* project root, which baseUri may not have
EffectiveBase(k) ==
    IF mappings[k].isPhysicalDirectoryPath \in {"undefined", "true"}
    THEN mappings[k].directoryPath
    ELSE IF GetWorkspaceFolder(dp.baseUri) = Undefined THEN Undefined
    ELSE JoinPath(GetWorkspaceFolder(dp.baseUri), mappings[k].directoryPath)

\* the normalized path without the logical path of mapping k that it begins with
Remainder(k) ==
    Slice(ReplaceChar(NormalizedPath(dp.dotPath), "\\", "/"), Len(mappings[k].logicalPath) - 1)

\* C16: resolveCustomMappingPaths returns one candidate per matching mapping
\* in the order of the table, whether the candidate exists or not, and each
\* candidate is the effective base of its mapping joined with the rest of the
\* normalized path after the matched prefix.
C16_OneCandidatePerMatch ==
    /\ dp.pc # "raised"
    /\ dp.mapped =>
          /\ dp.matched = MatchingMappings(NormalizedPath(dp.dotPath))
          /\ Len(dp.custom) = Len(dp.matched)
          /\ \A j \in 1..Len(dp.matched) :
                /\ EffectiveBase(dp.matched[j]) # Undefined
                /\ dp.custom[j] = JoinPath(EffectiveBase(dp.matched[j]), Remainder(dp.matched[j]))

\* C16 where every matching mapping has an effective base
C16_WithEffectiveBase ==
    (dp.mapped /\ \A j \in 1..Len(dp.matched) : EffectiveBase(dp.matched[j]) # Undefined) =>
        /\ dp.matched = MatchingMappings(NormalizedPath(dp.dotPath))
        /\ Len(dp.custom) = Len(dp.matched)
        /\ \A j \in 1..Len(dp.matched) :
              dp.custom[j] = JoinPath(EffectiveBase(dp.matched[j]), Remainder(dp.matched[j]))

\* the directory that contains location p
DirectoryOf(p) ==
    LET last == Max({k \in 1..Len(p) : p[k] = "/"})
    IN  IF last = 1 THEN <<"/">> ELSE SubSeq(p, 1, last - 1)

\* C17: the local candidate that resolveDottedPaths probes is the normalized
\* path joined onto the directory that contains the base location.
C17_LocalCandidateBesideBase ==
    /\ dp.pc = "local" =>
          dp.probing = JoinPath(DirectoryOf(dp.baseUri), NormalizedPath(dp.dotPath))
    /\ \A j \in 1..Len(dp.log) :
          dp.log[j].tier = "local" =>
              dp.log[j].path = JoinPath(DirectoryOf(dp.baseUri), NormalizedPath(dp.dotPath))

\* the paths of the probes of the run in dp that were hits, in their order
Hits == LET hits == SelectSeq(dp.log, LAMBDA e : e.hit)
        IN  [j \in 1..Len(hits) |-> hits[j].path]

\* C18: for the empty dotted path no hit ends the run: every tier is probed,
\* and the list holds every candidate found to exist (local, root, then each
\* matching mapping) in that order, so it may hold more than one.
C18_EmptyPathAccumulates ==
    dp.dotPath = <<>> =>
        /\ ProbedInOrder
        /\ dp.paths = Hits
        /\ dp.pc \in {"local", "root", "mapping"} =>
              dp.probing = CandidateOrder[Len(dp.log) + 1]
        /\ dp.pc = "returned" =>
              /\ Len(dp.log) = Len(CandidateOrder)
              /\ Stable => dp.paths = Existing

\* the run of the empty dotted path returned the local, the root and a
\* mapping candidate
C18_Witness ==
    /\ dp.dotPath = <<>>
    /\ dp.pc = "returned"
    /\ Stable
    /\ Len(dp.paths) = 3
    /\ dp.log[1].tier = "local" /\ dp.log[2].tier = "root" /\ dp.log[3].tier = "mapping"

-----------------------------------------------------------------------------
(* Claims about the link provider, checked under SpecLinks *)

\* every match of rule r in text, as a scan from offset 0 finds them
RECURSIVE MatchesFrom(_, _, _)
MatchesAfter(r, text, e) ==
    IF e.match.found THEN <<e.match.index>> \o MatchesFrom(r, text, e.lastIndex) ELSE <<>>

MatchesFrom(r, text, li) == MatchesAfter(r, text, Exec(r, text, li))

\* the offsets of the matches rule r's callback of call c has scanned and resolved
Scanned(c, r) == [j \in 1..Len(call[c].cb[r].log) |-> call[c].cb[r].log[j].index]

\* the log entries of call c, of both rules
Resolutions(c) ==
    UNION {{call[c].cb[r].log[j] : j \in 1..Len(call[c].cb[r].log)} : r \in Rules}

\* how many matches of rule r in call c resolved to a target
Targets(c, r) ==
    Cardinality({j \in 1..Len(call[c].cb[r].log) : call[c].cb[r].log[j].outcome = "target"})

\* how many matches of call c resolved to a target
Resolved(c) == Targets(c, 1) + Targets(c, 2)

\* C1: when the promise of provideDocumentLinks reaches the caller, the list
\* holds a link for every match that resolves: a call that ran alone adds
\* nothing to the list after it was delivered.
C1_DeliveredListComplete ==
    \A c \in Calls :
        (AllDone(c) /\ call[c].delivered /\ ~call[c].overlapped)
            => call[c].delivery = call[c].results

\* C3: calls are independent under concurrency: every call, interleaved with
\* another or not, scans for each rule exactly the matches a scan of its
\* document from offset 0 finds.
C3_CallsIndependent ==
    \A c \in Calls : AllDone(c) =>
        \A r \in Rules : Scanned(c, r) = MatchesFrom(r, call[c].doc.text, 0)

\* C6: resolveLink never raises, whatever the link, the document and the file
\* system do.
C6_ResolveLinkNeverRaises ==
    \A c \in Calls : \A e \in Resolutions(c) : e.outcome # "raised"

\* C7: per-match failures are isolated.  When a call that ran alone is through,
\* every match of every rule has been scanned and resolved, raising matches
\* included, and the list holds exactly one link for each match that resolved
\* to a target and none for a match that raised.
C7_FailuresIsolated ==
    \A c \in Calls : (AllDone(c) /\ ~call[c].overlapped) =>
        /\ \A r \in Rules : Scanned(c, r) = MatchesFrom(r, call[c].doc.text, 0)
        /\ Len(call[c].results) = Resolved(c)
        /\ \A e \in Resolutions(c) :
              (\E i \in 1..Len(call[c].results) :
                  /\ call[c].results[i].target = e.target
                  /\ GetText(call[c].doc.text, call[c].results[i].range) = e.link)
                  <=> e.outcome = "target"

\* a call that ran alone and is through, in which a match raised and a later
\* match of the same rule resolved to a target
C7_Witness ==
    \E c \in Calls, r \in Rules :
        /\ AllDone(c) /\ ~call[c].overlapped
        /\ \E i, j \in 1..Len(call[c].cb[r].log) :
              /\ i < j
              /\ call[c].cb[r].log[i].outcome = "raised"
              /\ call[c].cb[r].log[j].outcome = "target"

\* C8: a link to an existing directory never resolves, and the target of a link
\* without scheme is an entry that both probes found and the second reported
\* as a regular file.
C8_OnlyRegularFiles ==
    \A c \in Calls : \A e \in Resolutions(c) :
        /\ e.stat \in {"dir"} => e.outcome = "none"
        /\ (e.outcome = "target" /\ ~isUri(e.link)) => (e.probed = 2 /\ e.stat = "file")

\* a link whose candidate was found to exist and to be a directory, and in the
\* same call a link that resolved to a regular file
C8_Witness ==
    \E c \in Calls :
        /\ \E e \in Resolutions(c) : e.stat = "dir"
        /\ \E e \in Resolutions(c) : e.stat = "file" /\ e.outcome = "target"

\* C9: a link that parses as a reference with an explicit scheme resolves to
\* that literal reference, and no probe is issued while it is resolved.
C9_SchemeLinksUnprobed ==
    \A c \in Calls : \A e \in Resolutions(c) :
        (isUri(e.link) /\ ~UriParseThrows(e.link)) =>
            /\ e.outcome = "target"
            /\ e.target = e.link
            /\ e.probed = 0
            /\ e.stat = "none"

\* a scheme-qualified link was resolved while no entry of the file system exists
C9_Witness ==
    /\ \A p \in DOMAIN fs : fs[p] = "absent"
    /\ \E c \in Calls : \E e \in Resolutions(c) : isUri(e.link) /\ e.outcome = "target"

\* C10: for every link of the list, the text of the document between the start
\* and the end of its range is the link text that was captured and resolved
\* to the link's target.
C10_SpanIsLinkText ==
    \A c \in Calls : \A i \in 1..Len(call[c].results) :
        \E e \in Resolutions(c) :
            /\ e.outcome = "target"
            /\ e.target = call[c].results[i].target
            /\ e.link = GetText(call[c].doc.text, call[c].results[i].range)

\* a link of the list that lies on the second line of its document
C10_Witness ==
    \E c \in Calls : \E i \in 1..Len(call[c].results) :
        /\ call[c].results[i].range.start.line = 1
        /\ GetText(call[c].doc.text, call[c].results[i].range) = <<"l", ":">>

\* the callbacks of call c that are waiting for a probe of the file system
Probing(c) == {r \in Rules : call[c].cb[r].pc \in {"exists", "stat"}}

\* C11: a link whose text begins with "#" never produces a link of the list:
\* resolveLink returns nothing for it and issues no probe, whatever the
\* document and the file system are.
C11_FragmentLinksUnresolved ==
    \A c \in Calls :
        /\ \A r \in Probing(c) : ~StartsWith(call[c].cb[r].link, <<"#">>)
        /\ \A e \in Resolutions(c) :
              StartsWith(e.link, <<"#">>) =>
                  /\ e.outcome = "none"
                  /\ e.probed = 0
                  /\ e.stat = "none"
        /\ \A i \in 1..Len(call[c].results) :
              ~StartsWith(GetText(call[c].doc.text, call[c].results[i].range), <<"#">>)

\* a call that is through resolved a link that begins with "#", in a document
\* inside the workspace folder, while /w/f and /w/d are regular files
C11_Witness ==
    /\ \A p \in DOMAIN fs : fs[p] = "file"
    /\ \E c \in Calls :
          /\ AllDone(c)
          /\ call[c].doc.fileName = InWorkspace
          /\ \E e \in Resolutions(c) : e.link = <<"#", "a">>


\* whether call c began after every earlier call had finished its loops, and
\* no call began before c had finished its own
Sequential(c) == call[c].state = "called" /\ ~call[c].overlapped

\* C19: once a call has run all its loops with no other call interleaved,
\* the lastIndex of every link pattern is 0 again, and a call that follows it
\* on the same provider scans its document from offset 0: it finds for each
\* rule the matches a provider that never ran finds.
C19_CursorsRewound ==
    /\ ((\E c \in Calls : AllDone(c)) /\ \A c \in Calls : ~Active(c) /\ ~call[c].overlapped)
          => lastIndex = [r \in Rules |-> 0]
    /\ \A b, c \in Calls :
          (b < c /\ Sequential(b) /\ Sequential(c)) =>
              /\ \A r \in Rules :
                    call[c].cb[r].log # <<>> =>
                        call[c].cb[r].log[1].index = Head(MatchesFrom(r, call[c].doc.text, 0))
              /\ AllDone(c) =>
                    \A r \in Rules : Scanned(c, r) = MatchesFrom(r, call[c].doc.text, 0)

\* two calls ran one after the other, the first found matches of both rules
\* and the second found a match at offset 0 of its document
C19_Witness ==
    /\ \A c \in Calls : AllDone(c) /\ Sequential(c)
    /\ \A r \in Rules : Scanned(1, r) # <<>>
    /\ \E r \in Rules : Scanned(2, r) # <<>> /\ Scanned(2, r)[1] = 0
    /\ lastIndex = [r \in Rules |-> 0]

\* whether range is the span of the link text of match m of rule r in text
IsLinkSpan(text, r, m, range) ==
    /\ range.start = PositionAt(text, m.index + IndexOf(Group(m, 0), Group(m, linkIndex[r])))
    /\ range.end = PositionAt(text, m.index + IndexOf(Group(m, 0), Group(m, linkIndex[r]))
                                    + Len(Group(m, linkIndex[r])))

\* whether link i of call c is the span of the match that entry e of rule r's
\* log resolved, together with the target the link text of that match gave
PairsMatch(c, i, r, e, m) ==
    /\ e.outcome = "target"
    /\ m.found
    /\ Group(m, linkIndex[r]) = e.link
    /\ call[c].results[i].target = e.target
    /\ IsLinkSpan(call[c].doc.text, r, m, call[c].results[i].range)

\* C20: although the callbacks of the two rules share the variable `match`
\* and interleave at their awaits, every link of the list pairs the span of
\* one match with the target resolved from the link text of that same match.
C20_SpanAndTargetOfOneMatch ==
    \A c \in Calls : \A i \in 1..Len(call[c].results) :
        \E r \in Rules : \E j \in 1..Len(call[c].cb[r].log) :
            PairsMatch(c, i, r, call[c].cb[r].log[j],
                       PatternMatchAt(r, call[c].doc.text, call[c].cb[r].log[j].index))

\* a call whose two callbacks each awaited a probe while the other ran pushed
\* a link for a match of each rule
C20_Witness ==
    \E c \in Calls :
        /\ AllDone(c)
        /\ call[c].doc.text = TextMixed
        /\ \A r \in Rules : Targets(c, r) = 1
        /\ Len(call[c].results) = 2
        /\ call[c].results[1].range # call[c].results[2].range

-----------------------------------------------------------------------------
(* Claims about the filters, checked under SpecFilter *)

\* whether a is b with some of its entries left out
RECURSIVE IsSubsequence(_, _)
IsSubsequence(a, b) ==
    IF a = <<>> THEN TRUE
    ELSE IF b = <<>> THEN FALSE
    ELSE IF Head(a) = Head(b) THEN IsSubsequence(Tail(a), Tail(b))
    ELSE IsSubsequence(a, Tail(b))

\* C12: for every listing, the result of filterDirectories and the result of
\* filterComponents are each the listing with some entries left out, in the
\* listing's order (empty for the empty listing), and no entry is in both.
C12_FiltersSubsequencesDisjoint ==
    /\ "directories" \in listing.ran => IsSubsequence(listing.directories, listing.files)
    /\ "components" \in listing.ran => IsSubsequence(listing.components, listing.files)
    /\ listing.files = <<>> => (listing.directories = <<>> /\ listing.components = <<>>)
    /\ listing.ran = {"directories", "components"} =>
          \A i \in 1..Len(listing.directories), j \in 1..Len(listing.components) :
              listing.directories[i] # listing.components[j]

\* both filters ran on a listing of a component, a directory and a file that
\* is neither, and each kept one entry
C12_Witness ==
    /\ listing.ran = {"directories", "components"}
    /\ Len(listing.files) = 3
    /\ Len(listing.directories) = 1
    /\ Len(listing.components) = 1
    /\ listing.files[2] = listing.directories[1]
    /\ listing.files[3] = listing.components[1]

\* whether name ends with .cfc, letters compared without regard to case
HasComponentExtension(name) ==
    /\ Len(name) >= 4
    /\ [k \in 1..4 |-> Fold(name[Len(name) - 4 + k])] = <<".", "c", "f", "c">>

\* C13: filterComponents keeps an entry if and only if its kind is file and
\* its name ends with .cfc compared case-insensitively, wherever the entry
\* stands in the listing: Foo.CFC and foo.cfc are kept, foo.cfctxt is dropped.
C13_ComponentsByExtension ==
    "components" \in listing.ran =>
        /\ listing.components =
              SelectSeq(listing.files,
                        LAMBDA file : file.type = FileType.File /\ HasComponentExtension(file.name))
        /\ \A j \in 1..Len(listing.files) :
              listing.files[j].type = FileType.File =>
                  /\ listing.files[j].name \in {NameUpper, NameLower} =>
                        \E i \in 1..Len(listing.components) :
                            listing.components[i] = listing.files[j]
                  /\ listing.files[j].name = NameLonger =>
                        \A i \in 1..Len(listing.components) :
                            listing.components[i] # listing.files[j]

\* filterComponents ran on the files Foo.CFC, foo.cfctxt and foo.cfc and kept
\* the first and the last
C13_Witness ==
    /\ "components" \in listing.ran
    /\ listing.files = <<[name |-> NameUpper, type |-> FileType.File],
                         [name |-> NameLonger, type |-> FileType.File],
                         [name |-> NameLower, type |-> FileType.File]>>
    /\ listing.components = <<listing.files[1], listing.files[3]>>

=============================================================================
